---- MODULE Spec2Model ----
(***************************************************************************)
(* Orbital maneuvers (orbital/maneuver.py): operations, their velocity and *)
(* time deltas, and Maneuver.__apply__, over an orbit with exact numbers.  *)
(*                                                                         *)
(* Numbers.  The program computes in floating point; the model computes in *)
(* exact arithmetic.  A real number is a rational <<n, d>> (d > 0, lowest  *)
(* terms); an angle is p*pi + q with p, q rational, written [p, q], so     *)
(* that pi, 2*pi, the example 3*2*pi + 1/2 and Kepler's E - e*sin(E) at    *)
(* the quarter turns are all exact.  A duration is an angle divided by the *)
(* mean motion n of an orbit; n is a positive function of the semi-major   *)
(* axis, so a duration is kept as the set of terms angle/n(a).             *)
(***************************************************************************)
EXTENDS Integers, Sequences, FiniteSets, TLC

Abs(x) == IF x < 0 THEN -x ELSE x

RECURSIVE GCD(_, _)
GCD(x, y) == IF y = 0 THEN x ELSE GCD(y, x % y)

\* The rational n/d in lowest terms with a positive denominator (d # 0).
RNorm(n, d) ==
    LET g == GCD(Abs(n), Abs(d))
        s == IF d < 0 THEN -1 ELSE 1
    IN  <<(s * n) \div g, (s * d) \div g>>

RInt(k) == <<k, 1>>
RZero == RInt(0)
ROne == RInt(1)
RAdd(x, y) == RNorm(x[1] * y[2] + y[1] * x[2], x[2] * y[2])
RNeg(x) == <<-x[1], x[2]>>
RSub(x, y) == RAdd(x, RNeg(y))
RMul(x, y) == RNorm(x[1] * y[1], x[2] * y[2])
RDiv(x, y) == RNorm(x[1] * y[2], x[2] * y[1])
RLt(x, y) == x[1] * y[2] < y[1] * x[2]
RLeq(x, y) == x[1] * y[2] <= y[1] * x[2]
RSign(x) == IF x[1] > 0 THEN 1 ELSE IF x[1] < 0 THEN -1 ELSE 0
RAbs(x) == <<Abs(x[1]), x[2]>>

\* The angle p*pi + q.
Ang(p, q) == [p |-> p, q |-> q]
AngZero == Ang(RZero, RZero)
Pi == Ang(ROne, RZero)
TwoPi == Ang(RInt(2), RZero)
Turns(k) == Ang(RInt(2 * k), RZero)
AngAdd(x, y) == Ang(RAdd(x.p, y.p), RAdd(x.q, y.q))
AngNeg(x) == Ang(RNeg(x.p), RNeg(x.q))
AngSub(x, y) == AngAdd(x, AngNeg(y))

\* The sign of p*pi + q.  When p and q pull in opposite directions the sign
\* is that of p iff |q|/|p| < pi.  333/106 < pi < 355/113 are neighbours in
\* the Farey sequence, so no rational of denominator below 219 lies between
\* them and comparing with 355/113 decides every ratio the model forms.
AngSign(x) ==
    IF RSign(x.p) = 0 THEN RSign(x.q)
    ELSE IF RSign(x.q) = 0 \/ RSign(x.q) = RSign(x.p) THEN RSign(x.p)
    ELSE IF RLt(RDiv(RAbs(x.q), RAbs(x.p)), <<355, 113>>) THEN RSign(x.p)
    ELSE RSign(x.q)

AngLt(x, y) == AngSign(AngSub(x, y)) < 0
AngLeq(x, y) == AngSign(AngSub(x, y)) <= 0

\* floor(x / (2*pi)) and the remainder in [0, 2*pi).
RECURSIVE FloorTurns(_)
FloorTurns(x) ==
    IF AngLt(x, AngZero) THEN FloorTurns(AngAdd(x, TwoPi)) - 1
    ELSE IF AngLeq(TwoPi, x) THEN FloorTurns(AngSub(x, TwoPi)) + 1
    ELSE 0


(***************************************************************************)
(* Bounds of the model.                                                    *)
(***************************************************************************)
\* Apsis radii of the initial orbits and radius targets range over 1..MaxRadius.
MaxRadius == 3
\* A hand-built maneuver holds at most MaxOps operations.
MaxOps == 2

Radii == {RInt(r) : r \in 1..MaxRadius}
Altitudes == {RInt(r - 1) : r \in 1..MaxRadius}
Deltas == {RInt(-2), RInt(-1), RInt(1)}
QuarterTurns == {Ang(RNorm(k, 2), RZero) : k \in 0..3}

(***************************************************************************)
(* The orbit (orbital.elements.KeplerianElements, a collaborator): fields  *)
(* a, e, M, arg_pe, t, the velocity increments added to v, and the derived *)
(* apocenter_radius, pericenter_radius, f, v, n, T.                        *)
(***************************************************************************)
BodyMeanRadius == ROne

\* A true anomaly is named by the mean anomaly and eccentricity it belongs
\* to; at the apsides and on a circle it is the angle itself (ecc = 0).
TrueAnomaly(ang, ecc) ==
    [ang |-> ang, ecc |-> IF ang \in {AngZero, Pi} THEN RZero ELSE ecc]

Elements(ra, rp, M) ==
    [a |-> RDiv(RAdd(ra, rp), RInt(2)),
     e |-> RDiv(RSub(ra, rp), RAdd(ra, rp)),
     M |-> M,
     arg_pe |-> TrueAnomaly(AngZero, RZero),
     t |-> {},
     dv |-> <<>>]

InitialOrbits ==
    {Elements(rr[1], rr[2], M) :
        rr \in {x \in Radii \X Radii : RLeq(x[2], x[1])}, M \in QuarterTurns}

apocenter_radius(o) == RMul(o.a, RAdd(ROne, o.e))
pericenter_radius(o) == RMul(o.a, RSub(ROne, o.e))

\* orbit.f, read: the true anomaly of the current mean anomaly.
OrbitF(o) == TrueAnomaly(o.M, o.e)

\* orbit.f = 0, written: the mean anomaly follows (f = 0 is M = 0).
SetF0(o) == [o EXCEPT !.M = AngZero]

\* Elements for which the velocity and the mean motion are not defined.
Degenerate(o) == ~RLt(RZero, o.a) \/ ~RLt(RAbs(o.e), ROne)

\* orbit.v, read: the velocity at the current (a, e, M) plus what was
\* added to v.  With degenerate elements the read may fail or may yield a
\* meaningless value, so both outcomes are possible.
VelocityAt(o) == [a |-> o.a, e |-> o.e, M |-> o.M, dv |-> o.dv]
VelocityReadFails(o) == IF Degenerate(o) THEN {TRUE, FALSE} ELSE {FALSE}

\* new_velocity - old_velocity, both read with the same increments in v.
VelocityDiff(new, old) ==
    [from |-> [a |-> old.a, e |-> old.e, M |-> old.M],
     to |-> [a |-> new.a, e |-> new.e, M |-> new.M]]
NoVelocity == VelocityAt(Elements(ROne, ROne, AngZero))
NoDelta == VelocityDiff(NoVelocity, NoVelocity)

\* orbit.v += delta.
AddToV(o, delta) == [o EXCEPT !.dv = Append(@, delta)]

(***************************************************************************)
(* Durations: sets of terms ang / n(unit), one per semi-major axis, no     *)
(* zero terms.  T = 2*pi / n.                                              *)
(***************************************************************************)
DurOf(ang, a) == IF ang = AngZero THEN {} ELSE {[unit |-> a, ang |-> ang]}
DurCoef(d, a) ==
    IF \E x \in d : x.unit = a THEN (CHOOSE x \in d : x.unit = a).ang ELSE AngZero
DurAdd(d1, d2) ==
    LET units == {x.unit : x \in d1 \cup d2}
    IN  UNION {DurOf(AngAdd(DurCoef(d1, a), DurCoef(d2, a)), a) : a \in units}

\* x / orbit.n and k * orbit.T.  With degenerate elements n and the anomaly
\* conversions may fail or yield a meaningless value.
DivN(ang, o) == DurOf(ang, o.a)
TimesT(k, o) == DurOf(Turns(k), o.a)
\* orbit.t += d.
AddToT(o, d) == [o EXCEPT !.t = DurAdd(@, d)]

(***************************************************************************)
(* orbital.utilities (a collaborator).                                     *)
(***************************************************************************)
\* a = (ra + rp) / 2, e = (ra - rp) / (ra + rp); the division fails at 0.
elements_for_apsides(ra, rp) ==
    IF RAdd(ra, rp) = RZero
    THEN [exc |-> "ZeroDivisionError", a |-> RZero, e |-> RZero]
    ELSE [exc |-> "", a |-> RDiv(RAdd(ra, rp), RInt(2)),
          e |-> RDiv(RSub(ra, rp), RAdd(ra, rp))]

\* divmod(x, 2*pi): floor division and remainder.
divmod2pi(x) ==
    [orbits |-> FloorTurns(x), rem |-> AngSub(x, Turns(FloorTurns(x)))]

\* sin at a multiple of a quarter turn.
SinQuarter(E) ==
    LET k == (E.p[1] * (2 \div E.p[2])) % 4
    IN  IF k = 1 THEN ROne ELSE IF k = 3 THEN RInt(-1) ELSE RZero

\* M = E - e sin E, exact on a circle and at every quarter turn.
mean_anomaly_from_eccentric(e, E) ==
    IF e = RZero THEN E ELSE Ang(E.p, RSub(E.q, RMul(e, SinQuarter(E))))

\* E = atan2(sqrt(1 - e^2) sin f, e + cos f) mod 2*pi, for sin f = 0: the
\* angle of the point (e + cos f, 0), and cos f is 1 or -1.
eccentric_anomaly_from_true(e, f) ==
    LET cosf == IF divmod2pi(f).rem = AngZero THEN ROne ELSE RInt(-1)
    IN  IF RLt(RAdd(e, cosf), RZero) THEN Pi ELSE AngZero

mean_anomaly_from_true(e, f) ==
    mean_anomaly_from_eccentric(e, eccentric_anomaly_from_true(e, f))

(***************************************************************************)
(* Operations.  One record shape for every class: val is the radius,       *)
(* altitude or delta, flag is raise_pericenter, key and anomaly are the    *)
(* fields of the two time operations.                                      *)
(***************************************************************************)
Op(cls, val, flag, key, anomaly) ==
    [cls |-> cls, val |-> val, flag |-> flag, key |-> key, anomaly |-> anomaly]
Impulse(cls, val) == Op(cls, val, TRUE, "", AngZero)
Circularise(raise_pericenter) == Op("Circularise", RZero, raise_pericenter, "", AngZero)
SetPericenterHere == Op("SetPericenterHere", RZero, TRUE, "", AngZero)
TimeOp(cls, key, anomaly) == Op(cls, RZero, TRUE, key, anomaly)
NoOp == Op("", RZero, TRUE, "", AngZero)

ApocenterClasses ==
    {"SetApocenterRadiusTo", "SetApocenterAltitudeTo", "ChangeApocenterBy"}
PericenterClasses ==
    {"SetPericenterRadiusTo", "SetPericenterAltitudeTo", "ChangePericenterBy"}
\* The subclasses of ImpulseOperation this module defines.
ImpulseClasses == ApocenterClasses \cup PericenterClasses \cup {"Circularise"}
TimeClasses == {"PropagateAnomalyTo", "PropagateAnomalyBy"}
\* A caller's subclass of ImpulseOperation that defines velocity_delta (that
\* of SetApocenterRadiusTo) and no __apply__.
ImpulseOnly(r) == Impulse("ImpulseOnly", r)

\* Circularise without its __apply__.
HasApplyNoCircularise(op) ==
    op.cls \in ApocenterClasses \cup PericenterClasses \cup {"SetPericenterHere"}

\* hasattr(operation, '__apply__') and callable(...)
HasApply(op) == op.cls \in ImpulseClasses \cup {"SetPericenterHere"}
\* isinstance(operation, ImpulseOperation)
IsImpulse(op) == op.cls \in ImpulseClasses \cup {"ImpulseOnly"}
\* isinstance(operation, TimeOperation)
IsTime(op) == op.cls \in TimeClasses

(***************************************************************************)
(* PropagateAnomalyTo.__init__ and PropagateAnomalyBy.__init__ (the same   *)
(* code).  kwargs is a function from the keyword names given to values; a  *)
(* value is None or an angle.                                              *)
(***************************************************************************)
None == [none |-> TRUE, ang |-> AngZero]
Some(ang) == [none |-> FALSE, ang |-> ang]
valid_args == {"M", "E", "f"}

TimeOperationInit(cls, kwargs) ==
    LET extra_args == DOMAIN kwargs \ valid_args
        given == {k \in DOMAIN kwargs : ~kwargs[k].none}
    IN  IF extra_args # {} THEN [exc |-> "TypeError", op |-> NoOp]
        ELSE IF DOMAIN kwargs = {} THEN [exc |-> "TypeError", op |-> NoOp]
        ELSE IF Cardinality(given) > 1 THEN [exc |-> "ValueError", op |-> NoOp]
        \* popitem() on the dictionary left after the None values are removed
        ELSE IF given = {} THEN [exc |-> "KeyError", op |-> NoOp]
        ELSE LET key == CHOOSE k \in given : TRUE
             IN  [exc |-> "", op |-> TimeOp(cls, key, kwargs[key].ang)]

(***************************************************************************)
(* time_delta                                                              *)
(***************************************************************************)
\* The mean anomaly of the given anomaly, by its kind.
ToMean(key, e, anomaly) ==
    IF key = "f" THEN mean_anomaly_from_true(e, anomaly)
    ELSE IF key = "E" THEN mean_anomaly_from_eccentric(e, anomaly)
    ELSE anomaly

PropagateAnomalyTo_time_delta(op, o) ==
    LET M0 == ToMean(op.key, o.e, op.anomaly)
        M == IF AngLt(M0, o.M) THEN AngAdd(M0, TwoPi) ELSE M0
    IN  DivN(AngSub(M, o.M), o)

\* PropagateAnomalyBy.time_delta converting the whole amount, no divmod.
PropagateAnomalyBy_NoDivmod(op, o) == DivN(ToMean(op.key, o.e, op.anomaly), o)

PropagateAnomalyBy_time_delta(op, o) ==
    IF op.key \in {"f", "E"}
    THEN LET dm == divmod2pi(op.anomaly)
             M == ToMean(op.key, o.e, dm.rem)
         IN  DurAdd(TimesT(dm.orbits, o), DivN(M, o))
    ELSE DivN(op.anomaly, o)

time_delta(op, o) ==
    IF op.cls = "PropagateAnomalyTo" THEN PropagateAnomalyTo_time_delta(op, o)
    ELSE PropagateAnomalyBy_time_delta(op, o)

TimeDeltaFails(o) == IF Degenerate(o) THEN {TRUE, FALSE} ELSE {FALSE}

(***************************************************************************)
(* Impulse operations: __apply__ and velocity_delta.                       *)
(***************************************************************************)
\* Circularise.__apply__ with the two radii exchanged.
CirculariseRadiusSwapped(op, o) ==
    IF op.flag THEN pericenter_radius(o) ELSE apocenter_radius(o)

\* Circularise.__apply__: the radius kept.
CirculariseRadius(op, o) ==
    IF op.flag THEN apocenter_radius(o) ELSE pericenter_radius(o)

\* The (apocenter, pericenter) pair __apply__ hands to elements_for_apsides.
ApplyApsides(op, o) ==
    CASE op.cls = "SetApocenterRadiusTo" ->
            <<op.val, pericenter_radius(o)>>
      [] op.cls = "SetApocenterAltitudeTo" ->
            <<RAdd(BodyMeanRadius, op.val), pericenter_radius(o)>>
      [] op.cls = "ChangeApocenterBy" ->
            <<RAdd(apocenter_radius(o), op.val), pericenter_radius(o)>>
      [] op.cls = "SetPericenterRadiusTo" ->
            <<apocenter_radius(o), op.val>>
      [] op.cls = "SetPericenterAltitudeTo" ->
            <<apocenter_radius(o), RAdd(BodyMeanRadius, op.val)>>
      [] op.cls = "ChangePericenterBy" ->
            <<apocenter_radius(o), RAdd(pericenter_radius(o), op.val)>>
      [] op.cls = "Circularise" ->
            <<CirculariseRadius(op, o), CirculariseRadius(op, o)>>

\* operation.__apply__(orbit): the exception raised, if any, and the orbit.
Operation__apply__(op, o) ==
    IF op.cls = "SetPericenterHere"
    THEN [exc |-> "", orbit |-> SetF0([o EXCEPT !.arg_pe = OrbitF(o)])]
    ELSE LET aps == ApplyApsides(op, o)
             el == elements_for_apsides(aps[1], aps[2])
         IN  IF el.exc # "" THEN [exc |-> el.exc, orbit |-> o]
             ELSE [exc |-> "", orbit |-> [o EXCEPT !.a = el.a, !.e = el.e]]

\* The mean anomaly velocity_delta sets first: the apside of the burn.
DeltaApside(op) ==
    IF op.cls \in ApocenterClasses \cup {"ImpulseOnly"} THEN AngZero
    ELSE IF op.cls \in PericenterClasses THEN Pi
    ELSE IF op.flag THEN Pi ELSE AngZero

\* velocity_delta computing the new pair from the wrong apsis: the changed
\* radius is measured from the other one.
DeltaApsidesWrongApsis(op, o) ==
    CASE op.cls \in {"SetApocenterRadiusTo", "ImpulseOnly"} ->
            <<op.val, apocenter_radius(o)>>
      [] op.cls = "SetApocenterAltitudeTo" ->
            <<RAdd(BodyMeanRadius, op.val), apocenter_radius(o)>>
      [] op.cls = "ChangeApocenterBy" ->
            <<RAdd(pericenter_radius(o), op.val), pericenter_radius(o)>>
      [] op.cls = "SetPericenterRadiusTo" ->
            <<pericenter_radius(o), op.val>>
      [] op.cls = "SetPericenterAltitudeTo" ->
            <<pericenter_radius(o), RAdd(BodyMeanRadius, op.val)>>
      [] op.cls = "ChangePericenterBy" ->
            <<apocenter_radius(o), RAdd(apocenter_radius(o), op.val)>>
      [] op.cls = "Circularise" ->
            IF op.flag THEN <<pericenter_radius(o), pericenter_radius(o)>>
            ELSE <<apocenter_radius(o), apocenter_radius(o)>>

\* The (apocenter, pericenter) pair velocity_delta hands to elements_for_apsides.
DeltaApsides(op, o) ==
    CASE op.cls \in {"SetApocenterRadiusTo", "ImpulseOnly"} ->
            <<op.val, pericenter_radius(o)>>
      [] op.cls = "SetApocenterAltitudeTo" ->
            <<RAdd(BodyMeanRadius, op.val), pericenter_radius(o)>>
      [] op.cls = "ChangeApocenterBy" ->
            <<RAdd(apocenter_radius(o), op.val), pericenter_radius(o)>>
      [] op.cls = "SetPericenterRadiusTo" ->
            <<apocenter_radius(o), op.val>>
      [] op.cls = "SetPericenterAltitudeTo" ->
            <<apocenter_radius(o), RAdd(BodyMeanRadius, op.val)>>
      [] op.cls = "ChangePericenterBy" ->
            <<apocenter_radius(o), RAdd(pericenter_radius(o), op.val)>>
      [] op.cls = "Circularise" ->
            IF op.flag THEN <<apocenter_radius(o), apocenter_radius(o)>>
            ELSE <<pericenter_radius(o), pericenter_radius(o)>>

\* velocity_delta as one call on an orbit with sound elements: what it
\* returns.  The orbit is the same after the call as before.
velocity_delta(op, o) ==
    LET at == [o EXCEPT !.M = DeltaApside(op)]
        aps == DeltaApsides(op, at)
        el == elements_for_apsides(aps[1], aps[2])
    IN  VelocityDiff(VelocityAt([at EXCEPT !.a = el.a, !.e = el.e]), VelocityAt(at))

\* saved_state(orbit): the snapshot taken on entry, and the orbit on leaving
\* the block, however it is left.
SavedStateEnter(o) == o
SavedStateExit(o, snapshot) == snapshot

\* velocity_delta written without the with block: nothing is restored.
LeaveWithoutRestore(o, snapshot) == o

\* Leaving the with block of velocity_delta.
LeaveWith(o, snapshot) == SavedStateExit(o, snapshot)

(***************************************************************************)
(* Maneuver: the factories and the branch __apply__ takes for an operation.*)
(***************************************************************************)
PropagateAnomalyTo_M(ang) == TimeOp("PropagateAnomalyTo", "M", ang)

set_apocenter_radius_to(r) ==
    <<PropagateAnomalyTo_M(AngZero), Impulse("SetApocenterRadiusTo", r)>>
set_pericenter_radius_to(r) ==
    <<PropagateAnomalyTo_M(Pi), Impulse("SetPericenterRadiusTo", r)>>
set_apocenter_altitude_to(h) ==
    <<PropagateAnomalyTo_M(AngZero), Impulse("SetApocenterAltitudeTo", h)>>
set_pericenter_altitude_to(h) ==
    <<PropagateAnomalyTo_M(Pi), Impulse("SetPericenterAltitudeTo", h)>>
change_apocenter_by(delta) ==
    <<PropagateAnomalyTo_M(AngZero), Impulse("ChangeApocenterBy", delta)>>
\* change_pericenter_by propagating to the pericenter instead.
change_pericenter_by_AtPericenter(delta) ==
    <<TimeOp("PropagateAnomalyTo", "M", AngZero), Impulse("ChangePericenterBy", delta)>>
change_pericenter_by(delta) ==
    <<PropagateAnomalyTo_M(Pi), Impulse("ChangePericenterBy", delta)>>
\* hohmann_transfer_to coasting before the first burn.
hohmann_CoastFirst(target) ==
    <<SetPericenterHere,
      TimeOp("PropagateAnomalyTo", "M", Pi),
      Impulse("SetApocenterRadiusTo", apocenter_radius(target)),
      Circularise(TRUE)>>
hohmann_transfer_to(target) ==
    <<SetPericenterHere,
      Impulse("SetApocenterRadiusTo", apocenter_radius(target)),
      PropagateAnomalyTo_M(Pi),
      Circularise(TRUE)>>

RadiusFactories == {"set_apocenter_radius_to", "set_pericenter_radius_to"}
AltitudeFactories == {"set_apocenter_altitude_to", "set_pericenter_altitude_to"}
DeltaFactories == {"change_apocenter_by", "change_pericenter_by"}
Factories == RadiusFactories \cup AltitudeFactories \cup DeltaFactories

Factory(fn, arg) ==
    CASE fn = "set_apocenter_radius_to" -> set_apocenter_radius_to(arg)
      [] fn = "set_pericenter_radius_to" -> set_pericenter_radius_to(arg)
      [] fn = "set_apocenter_altitude_to" -> set_apocenter_altitude_to(arg)
      [] fn = "set_pericenter_altitude_to" -> set_pericenter_altitude_to(arg)
      [] fn = "change_apocenter_by" -> change_apocenter_by(arg)
      [] fn = "change_pericenter_by" -> change_pericenter_by(arg)

\* The branches tested in another order: the class before the shortcut.
BranchClassFirst(op) ==
    IF IsImpulse(op) THEN "velocity_delta"
    ELSE IF IsTime(op) THEN "time_delta"
    ELSE IF HasApply(op) THEN "__apply__"
    ELSE "none"

\* The branch Maneuver.__apply__ takes for an operation.
Branch(op) ==
    IF HasApply(op) THEN "__apply__"
    ELSE IF IsImpulse(op) THEN "velocity_delta"
    ELSE IF IsTime(op) THEN "time_delta"
    ELSE "none"

(***************************************************************************)
(* The inputs of the calls.                                                *)
(***************************************************************************)
ImpulseOps ==
    {Impulse(c, v) : c \in {"SetApocenterRadiusTo", "SetPericenterRadiusTo"},
                     v \in Radii}
    \cup {Impulse(c, v) : c \in {"SetApocenterAltitudeTo", "SetPericenterAltitudeTo"},
                          v \in Altitudes}
    \cup {Impulse(c, v) : c \in {"ChangeApocenterBy", "ChangePericenterBy"},
                          v \in Deltas}
    \cup {Circularise(b) : b \in BOOLEAN}

\* Anomalies given to the time operations: any angle as a mean anomaly,
\* quarter turns as an eccentric anomaly, half turns as a true anomaly.
AnomalyArgs(key) ==
    IF key = "M"
    THEN {AngZero, Pi, Ang(<<1, 2>>, RZero), Ang(<<-1, 2>>, RZero),
          Ang(RInt(3), RZero), Ang(RInt(-3), RZero), Ang(RInt(6), <<1, 2>>)}
    ELSE IF key = "E"
    THEN {AngZero, Pi, Ang(<<1, 2>>, RZero), Ang(<<-1, 2>>, RZero),
          Ang(<<5, 2>>, RZero), Ang(RInt(3), RZero), Ang(RInt(-3), RZero)}
    ELSE {AngZero, Pi, Ang(RInt(3), RZero), Ang(RInt(-3), RZero)}

TimeOps ==
    UNION {{TimeOp(c, k, x) : c \in TimeClasses, x \in AnomalyArgs(k)} :
           k \in valid_args}

\* Keyword arguments of the two constructors: any names among M, E, f and
\* an unknown one, each None or an angle.
KwargSets ==
    UNION {[names -> {None, Some(Pi)}] : names \in SUBSET (valid_args \cup {"x"})}

ListOps ==
    {Impulse("SetApocenterRadiusTo", RInt(MaxRadius)),
     Impulse("ChangeApocenterBy", RInt(-2)),
     Circularise(TRUE),
     Circularise(FALSE),
     SetPericenterHere,
     PropagateAnomalyTo_M(Pi),
     TimeOp("PropagateAnomalyBy", "E", Ang(<<5, 2>>, RZero)),
     ImpulseOnly(RInt(MaxRadius))}

RECURSIVE Lists(_, _)
Lists(S, n) ==
    IF n = 0 THEN {<<>>}
    ELSE {<<>>} \cup {<<x>> \o l : x \in S, l \in Lists(S, n - 1)}

Maneuvers ==
    {<<o>> : o \in ImpulseOps \cup TimeOps \cup {ImpulseOnly(r) : r \in Radii}}
    \cup Lists(ListOps, MaxOps)

CircularOrbits == {o \in InitialOrbits : o.e = RZero /\ o.M = AngZero}

(***************************************************************************)
(* State.                                                                  *)
(***************************************************************************)
VARIABLES
    orbit,         \* the orbit the calls work on
    pc,            \* where the call in progress stands
    call,          \* the call made: its name and arguments
    operations,    \* Maneuver.operations of the maneuver being applied
    idx,           \* the position of the for loop in operations (from 1)
    op,            \* self of the velocity_delta or time_delta call
    caller,        \* who called velocity_delta: "top" or "apply"
    saved,         \* the snapshot saved_state holds
    old_velocity,
    new_velocity,
    raised,        \* the exception that ended the call, "" if none
    ret_v,         \* what velocity_delta returned
    ret_t,         \* what time_delta returned
    built,         \* what the constructor produced
    kwargs,        \* the keyword arguments the constructor got
    pre,           \* a copy of the orbit taken when the call was made
    log            \* the loop iterations __apply__ completed

vars == <<orbit, pc, call, operations, idx, op, caller, saved, old_velocity,
          new_velocity, raised, ret_v, ret_t, built, kwargs, pre, log>>

NoTarget == Elements(ROne, ROne, AngZero)
Call(fn, arg, target) == [fn |-> fn, arg |-> arg, target |-> target]
NoKwargs == [k \in {} |-> None]

Init ==
    /\ orbit \in InitialOrbits
    /\ pc = "idle"
    /\ call = Call("", RZero, NoTarget)
    /\ operations = <<>>
    /\ idx = 1
    /\ op = NoOp
    /\ caller = "top"
    /\ saved = orbit
    /\ old_velocity = NoVelocity
    /\ new_velocity = NoVelocity
    /\ raised = ""
    /\ ret_v = NoDelta
    /\ ret_t = {}
    /\ built = [exc |-> "", op |-> NoOp]
    /\ kwargs = NoKwargs
    /\ pre = orbit
    /\ log = <<>>

(***************************************************************************)
(* Calls that return at once.                                              *)
(***************************************************************************)
\* PropagateAnomalyTo(**kw) or PropagateAnomalyBy(**kw)
Construct ==
    /\ pc = "idle"
    /\ \E cls \in TimeClasses, kw \in KwargSets :
          /\ built' = TimeOperationInit(cls, kw)
          /\ kwargs' = kw
          /\ raised' = TimeOperationInit(cls, kw).exc
          /\ call' = Call(cls, RZero, NoTarget)
    /\ pc' = "done"
    /\ UNCHANGED <<orbit, operations, idx, op, caller, saved, old_velocity,
                   new_velocity, ret_v, ret_t, pre, log>>

\* operation.time_delta(orbit), called alone
CallTimeDelta ==
    /\ pc = "idle"
    /\ \E o \in TimeOps :
          /\ op' = o
          /\ ret_t' = time_delta(o, orbit)
    /\ call' = Call("time_delta", RZero, NoTarget)
    /\ pc' = "done"
    /\ UNCHANGED <<orbit, operations, idx, caller, saved, old_velocity,
                   new_velocity, raised, ret_v, built, kwargs, pre, log>>

(***************************************************************************)
(* velocity_delta, statement by statement.                                 *)
(***************************************************************************)
\* operation.velocity_delta(orbit), called alone
CallVelocityDelta ==
    /\ pc = "idle"
    /\ \E o \in ImpulseOps : op' = o
    /\ caller' = "top"
    /\ call' = Call("velocity_delta", RZero, NoTarget)
    /\ pc' = "vd_enter"
    /\ UNCHANGED <<orbit, operations, idx, saved, old_velocity, new_velocity,
                   raised, ret_v, ret_t, built, kwargs, pre, log>>

\* with saved_state(orbit):
VdEnter ==
    /\ pc = "vd_enter"
    /\ saved' = SavedStateEnter(orbit)
    /\ pc' = "vd_old"
    /\ UNCHANGED <<orbit, call, operations, idx, op, caller, old_velocity,
                   new_velocity, raised, ret_v, ret_t, built, kwargs, pre, log>>

\* orbit.M = <apside>; old_velocity = orbit.v
VdOld ==
    /\ pc = "vd_old"
    /\ orbit' = [orbit EXCEPT !.M = DeltaApside(op)]
    /\ \E fails \in VelocityReadFails(orbit') :
          IF fails
          THEN /\ raised' = "ValueError"
               /\ pc' = "vd_exit"
               /\ UNCHANGED old_velocity
          ELSE /\ old_velocity' = VelocityAt(orbit')
               /\ pc' = "vd_elements"
               /\ UNCHANGED raised
    /\ UNCHANGED <<call, operations, idx, op, caller, saved, new_velocity,
                   ret_v, ret_t, built, kwargs, pre, log>>

\* a, e = elements_for_apsides(...); orbit.a = a; orbit.e = e
VdElements ==
    /\ pc = "vd_elements"
    /\ LET aps == DeltaApsides(op, orbit)
           el == elements_for_apsides(aps[1], aps[2])
       IN  IF el.exc # ""
           THEN /\ raised' = el.exc
                /\ pc' = "vd_exit"
                /\ UNCHANGED orbit
           ELSE /\ orbit' = [orbit EXCEPT !.a = el.a, !.e = el.e]
                /\ pc' = "vd_new"
                /\ UNCHANGED raised
    /\ UNCHANGED <<call, operations, idx, op, caller, saved, old_velocity,
                   new_velocity, ret_v, ret_t, built, kwargs, pre, log>>

\* new_velocity = orbit.v
VdNew ==
    /\ pc = "vd_new"
    /\ \E fails \in VelocityReadFails(orbit) :
          IF fails
          THEN /\ raised' = "ValueError"
               /\ UNCHANGED new_velocity
          ELSE /\ new_velocity' = VelocityAt(orbit)
               /\ UNCHANGED raised
    /\ pc' = "vd_exit"
    /\ UNCHANGED <<orbit, call, operations, idx, op, caller, saved,
                   old_velocity, ret_v, ret_t, built, kwargs, pre, log>>

\* The with block is left and velocity_delta returns or raises to the caller
\* of the lone call.
VdReturn ==
    /\ pc = "vd_exit"
    /\ caller = "top"
    /\ orbit' = LeaveWith(orbit, saved)
    /\ ret_v' = IF raised = "" THEN VelocityDiff(new_velocity, old_velocity)
                ELSE ret_v
    /\ pc' = "done"
    /\ UNCHANGED <<call, operations, idx, op, caller, saved, old_velocity,
                   new_velocity, raised, ret_t, built, kwargs, pre, log>>

(***************************************************************************)
(* Maneuver.__apply__, one loop iteration at a time.                       *)
(***************************************************************************)
Iteration(o, branch, before, after) ==
    [op |-> o, branch |-> branch, before |-> before, after |-> after]

\* Maneuver(operations).__apply__(orbit)
Apply ==
    /\ pc = "idle"
    /\ \E ops \in Maneuvers :
          /\ operations' = ops
          /\ call' = Call("Maneuver", RZero, NoTarget)
    /\ idx' = 1
    /\ log' = <<>>
    /\ pc' = "apply"
    /\ UNCHANGED <<orbit, op, caller, saved, old_velocity, new_velocity,
                   raised, ret_v, ret_t, built, kwargs, pre>>

FactoryArgs(fn) ==
    IF fn \in RadiusFactories THEN Radii
    ELSE IF fn \in AltitudeFactories THEN Altitudes ELSE Deltas

\* Maneuver.<factory>(arg).__apply__(orbit), the six two-step factories
ApplyFactory ==
    /\ pc = "idle"
    /\ \E fn \in Factories :
          \E arg \in FactoryArgs(fn) :
              /\ operations' = Factory(fn, arg)
              /\ call' = Call(fn, arg, NoTarget)
    /\ idx' = 1
    /\ log' = <<>>
    /\ pc' = "apply"
    /\ UNCHANGED <<orbit, op, caller, saved, old_velocity, new_velocity,
                   raised, ret_v, ret_t, built, kwargs, pre>>

\* Maneuver.hohmann_transfer_to(target).__apply__(orbit)
ApplyHohmann ==
    /\ pc = "idle"
    /\ \E target \in CircularOrbits :
          /\ operations' = hohmann_transfer_to(target)
          /\ call' = Call("hohmann_transfer_to", RZero, target)
    /\ idx' = 1
    /\ log' = <<>>
    /\ pc' = "apply"
    /\ UNCHANGED <<orbit, op, caller, saved, old_velocity, new_velocity,
                   raised, ret_v, ret_t, built, kwargs, pre>>

\* operation.__apply__(orbit)
ApplyDirect ==
    /\ pc = "apply"
    /\ idx <= Len(operations)
    /\ Branch(operations[idx]) = "__apply__"
    /\ LET r == Operation__apply__(operations[idx], orbit)
       IN  IF r.exc # ""
           THEN /\ raised' = r.exc
                /\ pc' = "done"
                /\ UNCHANGED <<orbit, idx, log>>
           ELSE /\ orbit' = r.orbit
                /\ idx' = idx + 1
                /\ log' = Append(log, Iteration(operations[idx], "__apply__",
                                                orbit, r.orbit))
                /\ UNCHANGED <<raised, pc>>
    /\ UNCHANGED <<call, operations, op, caller, saved, old_velocity,
                   new_velocity, ret_v, ret_t, built, kwargs, pre>>

\* orbit.v += operation.velocity_delta(orbit): the call is made
ApplyImpulse ==
    /\ pc = "apply"
    /\ idx <= Len(operations)
    /\ Branch(operations[idx]) = "velocity_delta"
    /\ op' = operations[idx]
    /\ caller' = "apply"
    /\ pc' = "vd_enter"
    /\ UNCHANGED <<orbit, call, operations, idx, saved, old_velocity,
                   new_velocity, raised, ret_v, ret_t, built, kwargs, pre, log>>

\* orbit.v += operation.velocity_delta(orbit): the call returns, or raises
\* and ends __apply__
ApplyImpulseReturn ==
    /\ pc = "vd_exit"
    /\ caller = "apply"
    /\ LET restored == LeaveWith(orbit, saved)
           delta == VelocityDiff(new_velocity, old_velocity)
       IN  IF raised # ""
           THEN /\ orbit' = restored
                /\ pc' = "done"
                /\ UNCHANGED <<idx, log, ret_v>>
           ELSE /\ orbit' = AddToV(restored, delta)
                /\ ret_v' = delta
                /\ idx' = idx + 1
                /\ log' = Append(log, Iteration(op, "velocity_delta", saved,
                                                AddToV(restored, delta)))
                /\ pc' = "apply"
    /\ UNCHANGED <<call, operations, op, caller, saved, old_velocity,
                   new_velocity, raised, ret_t, built, kwargs, pre>>

\* orbit.t += operation.time_delta(orbit)
ApplyTime ==
    /\ pc = "apply"
    /\ idx <= Len(operations)
    /\ Branch(operations[idx]) = "time_delta"
    /\ \E fails \in TimeDeltaFails(orbit) :
          IF fails
          THEN /\ raised' = "ValueError"
               /\ pc' = "done"
               /\ UNCHANGED <<orbit, idx, log, ret_t>>
          ELSE LET d == time_delta(operations[idx], orbit)
               IN  /\ orbit' = AddToT(orbit, d)
                   /\ ret_t' = d
                   /\ idx' = idx + 1
                   /\ log' = Append(log, Iteration(operations[idx], "time_delta",
                                                   orbit, AddToT(orbit, d)))
                   /\ UNCHANGED <<raised, pc>>
    /\ UNCHANGED <<call, operations, op, caller, saved, old_velocity,
                   new_velocity, ret_v, built, kwargs, pre>>

\* The for loop is exhausted and __apply__ returns.
ApplyReturn ==
    /\ pc = "apply"
    /\ idx > Len(operations)
    /\ pc' = "done"
    /\ UNCHANGED <<orbit, call, operations, idx, op, caller, saved,
                   old_velocity, new_velocity, raised, ret_v, ret_t, built,
                   kwargs, pre, log>>

Next ==
    \/ Construct
    \/ CallTimeDelta
    \/ CallVelocityDelta
    \/ VdEnter
    \/ VdOld
    \/ VdElements
    \/ VdNew
    \/ VdReturn
    \/ Apply
    \/ ApplyFactory
    \/ ApplyHohmann
    \/ ApplyDirect
    \/ ApplyImpulse
    \/ ApplyImpulseReturn
    \/ ApplyTime
    \/ ApplyReturn

Spec == Init /\ [][Next]_vars
(***************************************************************************)
(* Properties.                                                             *)
(***************************************************************************)
ApplyFns == {"Maneuver", "hohmann_transfer_to"} \cup Factories
InApply == call.fn \in ApplyFns
LastOrbit == IF log = <<>> THEN pre ELSE log[Len(log)].after

ExpectedBranch(o) ==
    IF HasApply(o) THEN "__apply__"
    ELSE IF IsImpulse(o) THEN "velocity_delta"
    ELSE "time_delta"

ExpectedAfter(o, before) ==
    IF HasApply(o) THEN Operation__apply__(o, before).orbit
    ELSE IF IsImpulse(o) THEN AddToV(before, velocity_delta(o, before))
    ELSE AddToT(before, time_delta(o, before))

\* C1: Maneuver.apply processes the operations in list order, each once,
\* on the same orbit: the k-th completed iteration is for operations[k],
\* starts from the orbit the (k-1)-th left, takes the one branch the
\* priority (__apply__, then impulse, then time) gives, with the delta
\* computed on that already mutated orbit; when apply returns, every
\* operation has been processed.
C1_InOrderOnceByPriority ==
    InApply =>
        /\ Len(log) <= Len(operations)
        /\ \A k \in 1..Len(log) :
              /\ log[k].op = operations[k]
              /\ log[k].branch = ExpectedBranch(operations[k])
              /\ log[k].before = (IF k = 1 THEN pre ELSE log[k - 1].after)
              /\ log[k].after = ExpectedAfter(operations[k], log[k].before)
        /\ (pc = "apply" => idx = Len(log) + 1 /\ orbit = LastOrbit)
        /\ (pc = "done" /\ raised = ""
               => Len(log) = Len(operations) /\ orbit = LastOrbit)

C1_Witness ==
    /\ InApply /\ pc = "done" /\ raised = ""
    /\ Len(log) = 2
    /\ log[1].branch = "__apply__" /\ IsImpulse(log[1].op)
    /\ log[2].branch = "velocity_delta"
    /\ log[2].before # pre
    /\ orbit.dv # <<>>

\* C2: velocity_delta called alone leaves the orbit as it was (a, e, M, t
\* and v), for every impulse operation, also when it ends in an exception
\* and when it returns from inside the with block.
C2_VelocityDeltaRestores ==
    (call.fn = "velocity_delta" /\ pc = "done") =>
        /\ orbit.a = pre.a /\ orbit.e = pre.e /\ orbit.M = pre.M
        /\ orbit.t = pre.t
        /\ VelocityAt(orbit) = VelocityAt(pre)
        /\ orbit = pre

C2_Witness ==
    /\ call.fn = "velocity_delta" /\ pc = "done"
    /\ raised = "ZeroDivisionError"
    /\ old_velocity.M # pre.M
    /\ orbit = pre

\* C3: PropagateAnomalyTo.time_delta is at least 0 and at most one period
\* T for every accepted target and every orbit, and 0 when the target mean
\* anomaly is orbit.M.
C3_WithinOnePeriod ==
    (call.fn = "time_delta" /\ pc = "done" /\ op.cls = "PropagateAnomalyTo") =>
        /\ AngLeq(AngZero, DurCoef(ret_t, orbit.a))
        /\ AngLeq(DurCoef(ret_t, orbit.a), TwoPi)
        /\ (ToMean(op.key, orbit.e, op.anomaly) = orbit.M => ret_t = {})

\* C4: PropagateAnomalyBy.time_delta is whole_orbits * T + M_remainder / n
\* with (whole_orbits, remainder) the floor division of the amount by 2*pi
\* and M_remainder the remainder as a mean anomaly at the current e, for
\* each of the kinds M, E, f; the orbit is not changed.
C4_WholeOrbitsPlusRemainder ==
    (call.fn = "time_delta" /\ pc = "done" /\ op.cls = "PropagateAnomalyBy") =>
        LET whole == FloorTurns(op.anomaly)
            remainder == AngSub(op.anomaly, Turns(whole))
            M_remainder == ToMean(op.key, orbit.e, remainder)
        IN  /\ AngLeq(AngZero, remainder) /\ AngLt(remainder, TwoPi)
            /\ ret_t = DurAdd(TimesT(whole, orbit), DivN(M_remainder, orbit))
            /\ orbit = pre

C4_Witness ==
    /\ call.fn = "time_delta" /\ pc = "done"
    /\ op = TimeOp("PropagateAnomalyBy", "M", Ang(RInt(6), <<1, 2>>))
    /\ ret_t = DurAdd(TimesT(3, orbit), DivN(Ang(RZero, <<1, 2>>), orbit))

\* C5: the constructors succeed iff the keywords are among M, E, f and
\* exactly one is not None, and then store that pair; otherwise they fail
\* with an argument error (TypeError or ValueError) and build nothing.
ExactlyOneGiven(kw) ==
    /\ DOMAIN kw \subseteq valid_args
    /\ Cardinality({k \in DOMAIN kw : ~kw[k].none}) = 1

C5_ArgumentErrorUnlessExactlyOne ==
    (call.fn \in TimeClasses /\ pc = "done") =>
        IF ExactlyOneGiven(kwargs)
        THEN /\ built.exc = ""
             /\ \E k \in DOMAIN kwargs :
                   /\ ~kwargs[k].none
                   /\ built.op = TimeOp(call.fn, k, kwargs[k].ang)
        ELSE /\ built.exc \in {"TypeError", "ValueError"}
             /\ built.op = NoOp

\* C6: hohmann_transfer_to(target) is [SetPericenterHere,
\* SetApocenterRadiusTo(target.apocenter_radius), PropagateAnomalyTo(M=pi),
\* Circularise()], and on a circular orbit of radius r1 with a circular
\* target of radius r2 > r1 it ends with apocenter radius r2, e = 0 and t
\* advanced by half the period of the ellipse with apsides r1 and r2,
\* whatever the anomaly at the start.
C6_Hohmann ==
    call.fn = "hohmann_transfer_to" =>
        /\ operations =
              <<SetPericenterHere,
                Impulse("SetApocenterRadiusTo", apocenter_radius(call.target)),
                TimeOp("PropagateAnomalyTo", "M", Pi),
                Circularise(TRUE)>>
        /\ (pc = "done" /\ pre.e = RZero /\ RLt(pre.a, call.target.a)) =>
              /\ raised = ""
              /\ apocenter_radius(orbit) = call.target.a
              /\ orbit.e = RZero
              /\ orbit.t = DurAdd(pre.t,
                                  DurOf(Pi, RDiv(RAdd(pre.a, call.target.a), RInt(2))))

C6_Witness ==
    /\ call.fn = "hohmann_transfer_to" /\ pc = "done"
    /\ pre.e = RZero /\ RLt(pre.a, call.target.a)
    /\ pre.M = Ang(<<3, 2>>, RZero)
    /\ orbit.a = call.target.a
    /\ orbit.t # {}

C8_Circularise ==
    (call.fn = "Maneuver" /\ pc = "done" /\ Len(operations) = 1
        /\ operations[1].cls = "Circularise" /\ pre.e # RZero) =>
        LET kept == IF operations[1].flag THEN apocenter_radius(pre)
                    ELSE pericenter_radius(pre)
        IN  /\ raised = ""
            /\ pericenter_radius(orbit) = kept
            /\ apocenter_radius(orbit) = kept
            /\ orbit.e = RZero
            /\ orbit = [pre EXCEPT !.a = orbit.a, !.e = orbit.e]

C8_Witness ==
    /\ call.fn = "Maneuver" /\ pc = "done" /\ Len(operations) = 1
    /\ operations[1] = Circularise(FALSE)
    /\ pre.e # RZero
    /\ orbit.a = pericenter_radius(pre)
    /\ orbit.a # pre.a

\* C9: each two-step factory builds [PropagateAnomalyTo(M=apside), impulse
\* operation], apside 0 for the apocenter recipes and pi for the pericenter
\* recipes; applied, the epoch advance is computed from the M and n of the
\* orbit before the rewrite and added to t while a and e are still the old
\* ones, and the rewrite then sets the named apsis to its target and keeps
\* the other apsis radius.  (No elements exist for a target pair that sums
\* to 0: the rewrite then raises, after t was advanced.)
FactoryApside(fn) ==
    IF fn \in {"set_apocenter_radius_to", "set_apocenter_altitude_to",
               "change_apocenter_by"}
    THEN AngZero ELSE Pi
FactoryClass(fn) ==
    CASE fn = "set_apocenter_radius_to" -> "SetApocenterRadiusTo"
      [] fn = "set_apocenter_altitude_to" -> "SetApocenterAltitudeTo"
      [] fn = "change_apocenter_by" -> "ChangeApocenterBy"
      [] fn = "set_pericenter_radius_to" -> "SetPericenterRadiusTo"
      [] fn = "set_pericenter_altitude_to" -> "SetPericenterAltitudeTo"
      [] fn = "change_pericenter_by" -> "ChangePericenterBy"
NamedApsis(fn, o) ==
    IF FactoryApside(fn) = AngZero THEN apocenter_radius(o) ELSE pericenter_radius(o)
OtherApsis(fn, o) ==
    IF FactoryApside(fn) = AngZero THEN pericenter_radius(o) ELSE apocenter_radius(o)
FactoryTarget(fn, arg, o) ==
    IF fn \in RadiusFactories THEN arg
    ELSE IF fn \in AltitudeFactories THEN RAdd(BodyMeanRadius, arg)
    ELSE RAdd(NamedApsis(fn, o), arg)
AdvanceTo(apside, o) ==
    IF AngLt(apside, o.M) THEN AngSub(AngAdd(apside, TwoPi), o.M)
    ELSE AngSub(apside, o.M)

C9_FactoriesPropagateFirst ==
    call.fn \in Factories =>
        LET apside == FactoryApside(call.fn)
            target == FactoryTarget(call.fn, call.arg, pre)
            moved == [pre EXCEPT !.t = DurAdd(pre.t, DurOf(AdvanceTo(apside, pre), pre.a))]
        IN  /\ operations = <<TimeOp("PropagateAnomalyTo", "M", apside),
                              Impulse(FactoryClass(call.fn), call.arg)>>
            /\ Len(log) >= 1 =>
                  /\ log[1].branch = "time_delta"
                  /\ log[1].before = pre
                  /\ log[1].after = moved
            /\ Len(log) = 2 =>
                  /\ log[2].branch = "__apply__"
                  /\ log[2].before = moved
                  /\ NamedApsis(call.fn, log[2].after) = target
                  /\ OtherApsis(call.fn, log[2].after) = OtherApsis(call.fn, pre)
                  /\ log[2].after.t = moved.t
            /\ pc = "done" =>
                  \/ raised = "" /\ Len(log) = 2 /\ orbit = log[2].after
                  \/ /\ raised = "ZeroDivisionError" /\ Len(log) = 1
                     /\ orbit = moved
                     /\ RAdd(target, OtherApsis(call.fn, pre)) = RZero

C9_Witness ==
    /\ call.fn = "change_pericenter_by" /\ pc = "done" /\ raised = ""
    /\ pre.M = Ang(<<1, 2>>, RZero)
    /\ orbit.t = DurOf(Ang(<<1, 2>>, RZero), pre.a)
    /\ orbit.a # pre.a
    /\ pericenter_radius(orbit) = RAdd(pericenter_radius(pre), call.arg)

\* C10: for a maneuver built from the operations of this module, apply
\* never calls velocity_delta and never adds to orbit.v: impulse
\* operations write only a and e, SetPericenterHere only arg_pe and f,
\* time operations only t.
ModuleClasses == ImpulseClasses \cup TimeClasses \cup {"SetPericenterHere"}

C10_NoVelocityBranchForModuleOps ==
    (InApply /\ \A k \in 1..Len(operations) : operations[k].cls \in ModuleClasses) =>
        /\ pc \in {"apply", "done"}
        /\ caller = "top"
        /\ orbit.dv = pre.dv
        /\ \A k \in 1..Len(log) :
              LET b == log[k].before
                  a == log[k].after
              IN  /\ log[k].branch # "velocity_delta"
                  /\ a.dv = b.dv
                  /\ log[k].op.cls \in ImpulseClasses =>
                        a = [b EXCEPT !.a = a.a, !.e = a.e]
                  /\ log[k].op.cls = "SetPericenterHere" =>
                        a = [b EXCEPT !.arg_pe = a.arg_pe, !.M = a.M]
                  /\ log[k].op.cls \in TimeClasses =>
                        a = [b EXCEPT !.t = a.t]

C10_Witness ==
    /\ call.fn = "Maneuver" /\ pc = "done" /\ raised = ""
    /\ Len(log) = 2
    /\ log[1].op = Circularise(TRUE) /\ log[1].after.a # pre.a
    /\ log[2].op.cls = "PropagateAnomalyBy" /\ orbit.t # {}
    /\ orbit.dv = <<>>
====
